---- MODULE Spec2Model ----
(***************************************************************************)
(* PNW Native Art Studio (src/app.js): the drawing state, the two SVG      *)
(* layers, the status line and the event handlers, as a state machine.     *)
(*                                                                         *)
(* Numbers.  Document coordinates are JavaScript numbers; the model keeps  *)
(* them in fixed point, Sub sub-units to one SVG user unit, so a pointer   *)
(* can move by less than one unit.  Math.hypot(dx, dy) is irrational in    *)
(* general, so a radius is kept by its square, in sub-units squared        *)
(* (field r2): sqrt is monotone, hence r < 2 is r2 < (2*Sub)^2 and         *)
(* Math.max(1, r) is the larger of Sub^2 and r2.                           *)
(***************************************************************************)
EXTENDS Integers, Sequences, FiniteSets, TLC

VARIABLES state, drawingLayer, previewLayer, statusMsg, coordsDisplay,
          strokeWidthVal, pdfPending, pdf, viewBox

\* pdf: the jsPDF documents of the exports suspended at their await (the
\* handler's local `pdf`), oldest first.  viewBox: canvas.viewBox.baseVal,
\* set by the page and never written.
vars == <<state, drawingLayer, previewLayer, statusMsg, coordsDisplay,
          strokeWidthVal, pdfPending, pdf, viewBox>>

(* ---- bounds ---------------------------------------------------------- *)

\* Shapes the committed layer may hold before the model stops committing.
MaxShapes == 2

\* PDF exports that may be suspended at their await at the same time.
MaxPending == 1

(* ---- number representation and canvas geometry ----------------------- *)

\* Sub-units per SVG user unit (fixed-point resolution of a coordinate).
Sub == 2

\* canvas.getBoundingClientRect(): the canvas on the page, in CSS pixels.
RectLeft == 1
RectTop == 1
RectWidth == 8
RectHeight == 4

\* canvas.viewBox.baseVal of the page Spec runs on: the canvas in SVG user
\* units.
ViewBoxWidth == 4
ViewBoxHeight == 2

(* ---- inputs ---------------------------------------------------------- *)

\* Pointer positions (clientX, clientY) the events are drawn from.  With the
\* geometry above they are the document points (0,0) (.5,0) (2,0) (2,.5):
\* the distances 0, .5 (below 1), 1.5 and sqrt(2.5) (between 1 and 2),
\* exactly 2, and sqrt(4.25) (above 2, not along an axis) all occur.
ClientPoints == { <<1, 1>>, <<2, 1>>, <<5, 1>>, <<5, 2>> }

\* evt.button: 0 is the primary button, 2 the secondary one.
Buttons == {0, 2}

MouseEvents ==
    { [clientX |-> p[1], clientY |-> p[2], button |-> b] :
        p \in ClientPoints, b \in Buttons }

\* A mousemove event reports no button change: its button is 0.
MoveEvents == { evt \in MouseEvents : evt.button = 0 }

\* Values of the colour inputs and of the range input (e.target.value) that
\* the toolbar events of Spec carry: the values the controls start with.  The
\* geometry is what Spec varies; with one style the layers stay small enough
\* to hold two shapes.
FillValues == {"#c0392b"}
StrokeValues == {"#1a1a1a"}
WidthValues == {"3"}

(* ---- pure helpers ---------------------------------------------------- *)

\* Number(e.target.value) for the values of the stroke-width range input.
Number(s) ==
    CASE s = "1" -> 1 [] s = "2" -> 2 [] s = "3" -> 3 [] s = "4" -> 4
      [] s = "5" -> 5

\* svgPoint(evt): client coordinates to document coordinates (in sub-units):
\* (client - rect.left) * (viewBox.width / rect.width).
svgPoint(evt) ==
    [x |-> ((evt.clientX - RectLeft) * viewBox.width * Sub) \div RectWidth,
     y |-> ((evt.clientY - RectTop) * viewBox.height * Sub) \div RectHeight]

\* The distance along x alone.
hypot2_XOnly(dx, dy) == dx * dx

\* Math.hypot(dx, dy), as its square.
hypot2(dx, dy) == dx * dx + dy * dy

\* The clamp left out.
max1_NoClamp(r2) == r2

\* Math.max(1, r) on squared radii.
max1(r2) == IF r2 < Sub * Sub THEN Sub * Sub ELSE r2

\* The threshold mistaken for the clamp's: r < 1.
tooShort_AtOne(r2) == r2 < Sub * Sub

\* r < 2, the test of the pointer-up handler, on squared radii.
tooShort(r2) == r2 < (2 * Sub) * (2 * Sub)

\* The element becomes the first child (insertBefore(el, firstChild)).
appendChild_First(layer, el) == <<el>> \o layer

\* layer.appendChild(el): el becomes the last child.
appendChild(layer, el) == Append(layer, el)

\* Math.round(v) of a coordinate v given in sub-units: floor(v/Sub + 1/2).
round(v) == (2 * v + Sub) \div (2 * Sub)

\* Math.round(r) of a radius given by its square: the n with
\* n - 1/2 <= r < n + 1/2.
roundHypot(r2) ==
    CHOOSE n \in 0..(r2 + 1) :
        /\ (n = 0 \/ (2 * n - 1) * (2 * n - 1) * Sub * Sub <= 4 * r2)
        /\ (2 * n + 1) * (2 * n + 1) * Sub * Sub > 4 * r2

\* A circle whose stroke width is the default's, whatever the toolbar says.
drawCircle_DefaultWidth(cx, cy, r2, optsFill) ==
    [cx |-> cx, cy |-> cy,
     r2 |-> max1(r2),
     fill |-> IF optsFill = "" THEN state.fillColor ELSE optsFill,
     stroke |-> state.strokeColor,
     strokeWidth |-> 3]

\* drawCircle(cx, cy, r, opts): the <circle> element and its attributes.
\* opts.fill ?? state.fillColor: an absent option is the string "".
drawCircle(cx, cy, r2, optsFill) ==
    [cx |-> cx, cy |-> cy,
     r2 |-> max1(r2),
     fill |-> IF optsFill = "" THEN state.fillColor ELSE optsFill,
     stroke |-> state.strokeColor,
     strokeWidth |-> state.strokeWidth]

\* The layers inside the canvas element, in document order.  Both hold
\* circles placed in the canvas's user units (svgPoint), so both are groups
\* of the canvas, the preview drawn above the drawing.
canvasChildren == <<drawingLayer, previewLayer>>

\* serializer.serializeToString(canvas): the shape elements of the canvas in
\* document order.
serializeToString == canvasChildren[1] \o canvasChildren[2]

(* ---- the page of the PDF export -------------------------------------- *)

\* const mmWidth = 297: the page width in mm.
mmWidth == 297

\* The page height without the rounding: the quotient cut off.
mmHeight_Floor == (viewBox.height * mmWidth) \div viewBox.width

\* Math.round(svgHeight / svgWidth * mmWidth): floor(h * 297 / w + 1/2).
mmHeight == (2 * viewBox.height * mmWidth + viewBox.width)
              \div (2 * viewBox.width)

\* new jsPDF({orientation, unit, format}) and the options of pdf.svg(canvas,
\* {x, y, width, height}).
newPdf ==
    [orientation |-> IF mmWidth > mmHeight THEN "landscape" ELSE "portrait",
     unit |-> "mm",
     format |-> <<mmWidth, mmHeight>>,
     svg |-> [x |-> 0, y |-> 0, width |-> mmWidth, height |-> mmHeight]]

(* ---- status messages (statusMsg.textContent) ------------------------- *)
\* The source's em dash and ellipsis are written "--" and "...".

MsgCircleTool == "Click and drag on the canvas to draw a circle."
MsgCleared == "Canvas cleared."
MsgSvgExported == "SVG exported."
MsgGeneratingPdf == "Generating PDF..."
MsgPdfExported == "PDF exported."
MsgPdfFailed == "PDF export failed -- see console for details."

MsgCircleAdded(startX, startY, r2) ==
    "Circle added -- centre (" \o ToString(round(startX)) \o ", "
        \o ToString(round(startY)) \o "), radius "
        \o ToString(roundHypot(r2)) \o "px."

(* ---- initial state --------------------------------------------------- *)

Init ==
    /\ state = [tool |-> "circle", fillColor |-> "#c0392b",
                strokeColor |-> "#1a1a1a", strokeWidth |-> 3,
                dragging |-> FALSE, startX |-> 0, startY |-> 0]
    /\ drawingLayer = <<>>
    /\ previewLayer = <<>>
    /\ statusMsg = ""
    /\ coordsDisplay = ""
    /\ strokeWidthVal = "3"
    /\ pdfPending = 0
    /\ pdf = <<>>
    /\ viewBox = [width |-> ViewBoxWidth, height |-> ViewBoxHeight]

(* ---- canvas interaction ---------------------------------------------- *)

\* A pointer-down that starts a drag whichever button is pressed.
MouseDown_AnyButton(evt) ==
    /\ state' = [state EXCEPT !.dragging = TRUE,
                              !.startX = svgPoint(evt).x,
                              !.startY = svgPoint(evt).y]
    /\ UNCHANGED <<drawingLayer, previewLayer, statusMsg, coordsDisplay,
                   strokeWidthVal, pdfPending, pdf, viewBox>>

MouseDown(evt) ==
    /\ IF evt.button # 0
         THEN UNCHANGED state
         ELSE state' = [state EXCEPT !.dragging = TRUE,
                                     !.startX = svgPoint(evt).x,
                                     !.startY = svgPoint(evt).y]
    /\ UNCHANGED <<drawingLayer, previewLayer, statusMsg, coordsDisplay,
                   strokeWidthVal, pdfPending,
                   pdf, viewBox>>

MouseMove(evt) ==
    LET pt == svgPoint(evt)
        r2 == hypot2(pt.x - state.startX, pt.y - state.startY)
    IN  /\ coordsDisplay' = "x: " \o ToString(round(pt.x)) \o "  y: "
                              \o ToString(round(pt.y))
        /\ IF ~state.dragging
             THEN UNCHANGED previewLayer
             ELSE IF state.tool = "circle"
               THEN previewLayer' =
                      appendChild(<<>>,
                          drawCircle(state.startX, state.startY, r2,
                                     state.fillColor \o "99"))
               ELSE previewLayer' = <<>>
        /\ UNCHANGED <<state, drawingLayer, statusMsg, strokeWidthVal,
                       pdfPending,
                       pdf, viewBox>>

\* A pointer-up that, like the pointer-down, returns at once unless the
\* primary button is the one released.
MouseUpWithin_PrimaryOnly(evt, capacity) ==
    LET pt == svgPoint(evt)
        r2 == hypot2(pt.x - state.startX, pt.y - state.startY)
    IN  IF ~state.dragging \/ evt.button # 0
          THEN UNCHANGED vars
          ELSE /\ state' = [state EXCEPT !.dragging = FALSE]
               /\ previewLayer' = <<>>
               /\ IF state.tool = "circle" /\ ~tooShort(r2)
                    THEN /\ Len(drawingLayer) < capacity
                         /\ drawingLayer' = appendChild(drawingLayer,
                              drawCircle(state.startX, state.startY, r2, ""))
                         /\ statusMsg' =
                              MsgCircleAdded(state.startX, state.startY, r2)
                    ELSE UNCHANGED <<drawingLayer, statusMsg>>
               /\ UNCHANGED <<coordsDisplay, strokeWidthVal, pdfPending,
                              pdf, viewBox>>

\* The mouseup listener; capacity is the number of shapes the committed
\* layer may hold before the model stops committing.
MouseUpWithin(evt, capacity) ==
    LET pt == svgPoint(evt)
        r2 == hypot2(pt.x - state.startX, pt.y - state.startY)
    IN  IF ~state.dragging
          THEN UNCHANGED vars
          ELSE /\ state' = [state EXCEPT !.dragging = FALSE]
               /\ previewLayer' = <<>>
               /\ IF state.tool = "circle" /\ ~tooShort(r2)
                    THEN /\ Len(drawingLayer) < capacity
                         /\ drawingLayer' = appendChild(drawingLayer,
                              drawCircle(state.startX, state.startY, r2, ""))
                         /\ statusMsg' =
                              MsgCircleAdded(state.startX, state.startY, r2)
                    ELSE UNCHANGED <<drawingLayer, statusMsg>>
               /\ UNCHANGED <<coordsDisplay, strokeWidthVal, pdfPending,
                              pdf, viewBox>>

MouseUp(evt) == MouseUpWithin(evt, MaxShapes)

\* A pointer-leave that ends the drag and leaves the preview on the canvas.
MouseLeave_KeepsPreview ==
    /\ IF state.dragging
         THEN state' = [state EXCEPT !.dragging = FALSE]
         ELSE UNCHANGED state
    /\ coordsDisplay' = ""
    /\ UNCHANGED <<previewLayer, drawingLayer, statusMsg, strokeWidthVal,
                   pdfPending, pdf, viewBox>>

\* A pointer-leave that clears the preview and leaves the drag in progress.
MouseLeave_KeepsDragging ==
    /\ IF state.dragging
         THEN previewLayer' = <<>>
         ELSE UNCHANGED previewLayer
    /\ coordsDisplay' = ""
    /\ UNCHANGED <<state, drawingLayer, statusMsg, strokeWidthVal,
                   pdfPending, pdf, viewBox>>

\* A pointer-leave that keeps the previewed circle as a committed one.
MouseLeave_Commits ==
    /\ IF state.dragging
         THEN /\ state' = [state EXCEPT !.dragging = FALSE]
              /\ previewLayer' = <<>>
              /\ drawingLayer' = drawingLayer \o previewLayer
         ELSE UNCHANGED <<state, previewLayer, drawingLayer>>
    /\ coordsDisplay' = ""
    /\ UNCHANGED <<statusMsg, strokeWidthVal, pdfPending,
                   pdf, viewBox>>

MouseLeave ==
    /\ IF state.dragging
         THEN /\ state' = [state EXCEPT !.dragging = FALSE]
              /\ previewLayer' = <<>>
         ELSE UNCHANGED <<state, previewLayer>>
    /\ coordsDisplay' = ""
    /\ UNCHANGED <<drawingLayer, statusMsg, strokeWidthVal, pdfPending,
                   pdf, viewBox>>

(* ---- toolbar controls ------------------------------------------------ *)

BtnCircle ==
    /\ state' = [state EXCEPT !.tool = "circle"]
    /\ statusMsg' = MsgCircleTool
    /\ UNCHANGED <<drawingLayer, previewLayer, coordsDisplay, strokeWidthVal,
                   pdfPending,
                   pdf, viewBox>>

FillColorInput(value) ==
    /\ state' = [state EXCEPT !.fillColor = value]
    /\ UNCHANGED <<drawingLayer, previewLayer, statusMsg, coordsDisplay,
                   strokeWidthVal, pdfPending,
                   pdf, viewBox>>

StrokeColorInput(value) ==
    /\ state' = [state EXCEPT !.strokeColor = value]
    /\ UNCHANGED <<drawingLayer, previewLayer, statusMsg, coordsDisplay,
                   strokeWidthVal, pdfPending,
                   pdf, viewBox>>

StrokeWidthInput(value) ==
    /\ state' = [state EXCEPT !.strokeWidth = Number(value)]
    /\ strokeWidthVal' = value
    /\ UNCHANGED <<drawingLayer, previewLayer, statusMsg, coordsDisplay,
                   pdfPending,
                   pdf, viewBox>>

\* A clear that also ends the drag in progress.
BtnClear_EndsDrag ==
    /\ drawingLayer' = <<>>
    /\ previewLayer' = <<>>
    /\ statusMsg' = MsgCleared
    /\ state' = [state EXCEPT !.dragging = FALSE]
    /\ UNCHANGED <<coordsDisplay, strokeWidthVal, pdfPending, pdf, viewBox>>

\* A clear that forgets the preview layer.
BtnClear_DrawingOnly ==
    /\ drawingLayer' = <<>>
    /\ statusMsg' = MsgCleared
    /\ UNCHANGED <<state, previewLayer, coordsDisplay, strokeWidthVal,
                   pdfPending,
                   pdf, viewBox>>

BtnClear ==
    /\ drawingLayer' = <<>>
    /\ previewLayer' = <<>>
    /\ statusMsg' = MsgCleared
    /\ UNCHANGED <<state, coordsDisplay, strokeWidthVal, pdfPending,
                   pdf, viewBox>>

(* ---- export ---------------------------------------------------------- *)

\* An export that removes the preview before it serializes.
BtnExportSvg_DropsPreview ==
    /\ previewLayer' = <<>>
    /\ statusMsg' = MsgSvgExported
    /\ UNCHANGED <<state, drawingLayer, coordsDisplay, strokeWidthVal,
                   pdfPending,
                   pdf, viewBox>>

BtnExportSvg ==
    /\ statusMsg' = MsgSvgExported
    /\ UNCHANGED <<state, drawingLayer, previewLayer, coordsDisplay,
                   strokeWidthVal, pdfPending,
                   pdf, viewBox>>

\* The click handler up to its await.  threw: window.jspdf is missing, or
\* new jsPDF(...) or the call of pdf.svg(...) throws; the catch block runs
\* in the same turn.
BtnExportPdf(threw) ==
    IF threw
      THEN /\ statusMsg' = MsgPdfFailed
           /\ UNCHANGED <<state, drawingLayer, previewLayer, coordsDisplay,
                          strokeWidthVal, pdfPending,
                          pdf, viewBox>>
      ELSE /\ pdfPending < MaxPending
           /\ pdfPending' = pdfPending + 1
           /\ pdf' = Append(pdf, newPdf)
           /\ statusMsg' = MsgGeneratingPdf
           /\ UNCHANGED <<state, drawingLayer, previewLayer, coordsDisplay,
                          strokeWidthVal, viewBox>>

\* A continuation that ends without a word on the status line.
PdfResume_Silent(threw) ==
    /\ pdfPending > 0
    /\ pdfPending' = pdfPending - 1
    /\ pdf' = Tail(pdf)
    /\ UNCHANGED <<state, drawingLayer, previewLayer, statusMsg,
                   coordsDisplay, strokeWidthVal, viewBox>>

\* A continuation whose failure escapes the try block: no status is set.
PdfResume_Uncaught(threw) ==
    /\ pdfPending > 0
    /\ pdfPending' = pdfPending - 1
    /\ pdf' = Tail(pdf)
    /\ statusMsg' = IF threw THEN statusMsg ELSE MsgPdfExported
    /\ UNCHANGED <<state, drawingLayer, previewLayer, coordsDisplay,
                   strokeWidthVal, viewBox>>

\* A continuation that ends the drag in progress.
PdfResume_EndsDrag(threw) ==
    /\ pdfPending > 0
    /\ pdfPending' = pdfPending - 1
    /\ pdf' = Tail(pdf)
    /\ statusMsg' = IF threw THEN MsgPdfFailed ELSE MsgPdfExported
    /\ state' = [state EXCEPT !.dragging = FALSE]
    /\ UNCHANGED <<drawingLayer, previewLayer, coordsDisplay,
                   strokeWidthVal, viewBox>>

\* The continuation after the await.  threw: the promise of pdf.svg(...)
\* was rejected, or pdf.save(...) throws.
PdfResume(threw) ==
    /\ pdfPending > 0
    /\ pdfPending' = pdfPending - 1
    /\ pdf' = Tail(pdf)
    /\ statusMsg' = IF threw
                      THEN MsgPdfFailed
                      ELSE MsgPdfExported
    /\ UNCHANGED <<state, drawingLayer, previewLayer, coordsDisplay,
                   strokeWidthVal, viewBox>>

(* ---- specification --------------------------------------------------- *)

Next ==
    \/ \E evt \in MouseEvents : MouseDown(evt)
    \/ \E evt \in MoveEvents : MouseMove(evt)
    \/ \E evt \in MouseEvents : MouseUp(evt)
    \/ MouseLeave
    \/ BtnCircle
    \/ \E value \in FillValues : FillColorInput(value)
    \/ \E value \in StrokeValues : StrokeColorInput(value)
    \/ \E value \in WidthValues : StrokeWidthInput(value)
    \/ BtnClear
    \/ BtnExportSvg
    \/ \E threw \in BOOLEAN : BtnExportPdf(threw)
    \/ \E threw \in BOOLEAN : PdfResume(threw)

Spec == Init /\ [][Next]_vars

(* ---- specification: the render call of every export settles ---------- *)

\* await pdf.svg(...): the promise of a suspended export is settled by the
\* library, resolved or rejected, and the event loop then runs the
\* continuation.
SpecLive ==
    Init /\ [][Next]_vars /\ WF_vars(\E threw \in BOOLEAN : PdfResume(threw))

(* ---- specification: the PDF export on canvases of any size ----------- *)

\* Largest width and height of the canvas, in user units.
MaxViewBox == 6

InitPage ==
    /\ state = [tool |-> "circle", fillColor |-> "#c0392b",
                strokeColor |-> "#1a1a1a", strokeWidth |-> 3,
                dragging |-> FALSE, startX |-> 0, startY |-> 0]
    /\ drawingLayer = <<>>
    /\ previewLayer = <<>>
    /\ statusMsg = ""
    /\ coordsDisplay = ""
    /\ strokeWidthVal = "3"
    /\ pdfPending = 0
    /\ pdf = <<>>
    /\ viewBox \in [width : 1..MaxViewBox, height : 1..MaxViewBox]

NextPage ==
    \/ \E threw \in BOOLEAN : BtnExportPdf(threw)
    \/ \E threw \in BOOLEAN : PdfResume(threw)

SpecPage == InitPage /\ [][NextPage]_vars

(* ---- specification: drawing with every style ------------------------- *)

\* Shapes the committed layer may hold in SpecStyle.
MaxStyleShapes == 1

\* Two pointer positions, the document points (0,0) and (2,0), pressed and
\* released with the primary button.
StyleEvents ==
    { evt \in MouseEvents : evt.clientY = 1 /\ evt.clientX \in {1, 5}
                              /\ evt.button = 0 }

\* Values of the colour inputs and of the range input.
StyleFillValues == {"#c0392b", "#2980b9"}
StyleStrokeValues == {"#1a1a1a", "#ffffff"}
StyleWidthValues == {"3", "5"}

NextStyle ==
    \/ \E evt \in StyleEvents : MouseDown(evt)
    \/ \E evt \in StyleEvents : MouseMove(evt)
    \/ \E evt \in StyleEvents : MouseUpWithin(evt, MaxStyleShapes)
    \/ \E value \in StyleFillValues : FillColorInput(value)
    \/ \E value \in StyleStrokeValues : StrokeColorInput(value)
    \/ \E value \in StyleWidthValues : StrokeWidthInput(value)
    \/ BtnClear

SpecStyle == Init /\ [][NextStyle]_vars

(* ---- properties ------------------------------------------------------ *)

\* The point where the drag began, as the pointer-down handler recorded it.
DragStart == [x |-> state.startX, y |-> state.startY]

\* Squared Euclidean distance between two document points (sub-units).
Dist2(p, q) == (p.x - q.x) * (p.x - q.x) + (p.y - q.y) * (p.y - q.y)

\* The distance between p and q is less than d user units.
CloserThan(p, q, d) == Dist2(p, q) < (d * Sub) * (d * Sub)

Last(seq) == seq[Len(seq)]

\* seq is longer by exactly one element than old, which it begins with.
ExtendsByOne(old, seq) ==
    /\ Len(seq) = Len(old) + 1
    /\ SubSeq(seq, 1, Len(old)) = old

\* C1: a pointer-up that ends a drag whose distance from the pointer-down
\* point to the pointer-up point is less than 2 units commits nothing: the
\* committed layer is the same sequence after the event as before it.
C1_ShortDragCommitsNothing ==
    [][drawingLayer' # drawingLayer
         => \A evt \in MouseEvents :
              ~(state.dragging /\ CloserThan(DragStart, svgPoint(evt), 2)
                  /\ MouseUp(evt))]_vars

\* A drag that began away from the origin has ended, the pointer is still
\* over the canvas, and nothing was ever committed or cleared.
C1_Witness ==
    /\ ~state.dragging
    /\ DragStart # [x |-> 0, y |-> 0]
    /\ coordsDisplay # ""
    /\ previewLayer = <<>>
    /\ drawingLayer = <<>>
    /\ statusMsg = ""

\* C2: a pointer-up that ends a drag of distance >= 2 units appends one
\* shape to the committed layer, whose centre is the drag's start point and
\* whose radius is the Euclidean distance from start to end, at least 1.
C2_CommittedCircleGeometry ==
    [][state.dragging => \A evt \in MouseEvents :
         (MouseUp(evt) /\ ~CloserThan(DragStart, svgPoint(evt), 2))
         => /\ ExtendsByOne(drawingLayer, drawingLayer')
            /\ Last(drawingLayer').cx = state.startX
            /\ Last(drawingLayer').cy = state.startY
            /\ Last(drawingLayer').r2 = Dist2(DragStart, svgPoint(evt))
            /\ Last(drawingLayer').r2 >= Sub * Sub]_vars

\* A circle was committed by a drag that was not parallel to an axis (its
\* squared radius 17 is 4*4 + 1*1), the drag is over and the circle's centre
\* is the recorded start point.
C2_Witness ==
    /\ ~state.dragging
    /\ drawingLayer # <<>>
    /\ Last(drawingLayer).r2 = 17
    /\ Last(drawingLayer).cx = state.startX
    /\ Last(drawingLayer).cy = state.startY

\* C3: in every reachable state, a drag in progress with its preview shown
\* included, the document the SVG export serializes holds exactly as many
\* shape elements as the committed layer.
C3_ExportCountsCommitted ==
    Len(serializeToString) = Len(drawingLayer)

\* C4: immediately after the clear operation, from any state, the preview
\* layer and the committed layer are both empty.
C4_ClearEmptiesBothLayers ==
    [][BtnClear => (previewLayer' = <<>> /\ drawingLayer' = <<>>)]_vars

\* The canvas was cleared in the middle of a drag and neither layer holds
\* a shape.
C4_Witness ==
    /\ statusMsg = MsgCleared
    /\ state.dragging
    /\ previewLayer = <<>>
    /\ drawingLayer = <<>>

\* C5: in every step the committed layer is unchanged, or extended by one
\* shape at its end with the shapes before it kept as they were, or emptied
\* by the clear operation.
C5_CommittedLayerAppendOnly ==
    [][\/ drawingLayer' = drawingLayer
       \/ ExtendsByOne(drawingLayer, drawingLayer')
       \/ (BtnClear /\ drawingLayer' = <<>>)]_vars

\* The committed layer holds two different shapes.
C5_Witness ==
    /\ Len(drawingLayer) = 2
    /\ drawingLayer[1] # drawingLayer[2]

\* The toolbar events.
ToolbarStep ==
    \/ BtnCircle
    \/ \E value \in FillValues : FillColorInput(value)
    \/ \E value \in StrokeValues : StrokeColorInput(value)
    \/ \E value \in WidthValues : StrokeWidthInput(value)

\* The export events: the SVG export, the PDF export's click and the PDF
\* export's continuation.
ExportStep ==
    \/ BtnExportSvg
    \/ \E threw \in BOOLEAN : BtnExportPdf(threw)
    \/ \E threw \in BOOLEAN : PdfResume(threw)

\* C6: the committed layer grows only in a pointer-up during a drag, and
\* then by one shape; pointer-down, pointer-move, pointer-leave, the toolbar,
\* clear and the exports never add a shape; a pointer-up with no drag in
\* progress changes nothing.
C6_OnlyPointerUpCommits ==
    [][/\ Len(drawingLayer') > Len(drawingLayer)
            => /\ state.dragging
               /\ \E evt \in MouseEvents : MouseUp(evt)
               /\ Len(drawingLayer') = Len(drawingLayer) + 1
       /\ Len(drawingLayer') > Len(drawingLayer)
            => ~( \/ \E evt \in MouseEvents : MouseDown(evt)
                  \/ \E evt \in MoveEvents : MouseMove(evt)
                  \/ MouseLeave
                  \/ ToolbarStep
                  \/ BtnClear
                  \/ ExportStep )
       /\ ~state.dragging
            => \A evt \in MouseEvents : MouseUp(evt) => UNCHANGED vars]_vars

\* One circle has been committed, its message is still the status, and the
\* drag that made it is over.
C6_Witness ==
    /\ Len(drawingLayer) = 1
    /\ ~state.dragging
    /\ statusMsg = MsgCircleAdded(state.startX, state.startY,
                                  drawingLayer[1].r2)

\* C7: a PDF export that throws, before or after its await, ends with the
\* status 'PDF export failed -- see console for details.' and leaves the
\* layers, the drag state and the style settings as they were; no other
\* operation produces the failure status.
C7_PdfFailureCaught ==
    [][/\ (BtnExportPdf(TRUE) \/ PdfResume(TRUE))
            => /\ statusMsg' = MsgPdfFailed
               /\ UNCHANGED <<state, drawingLayer, previewLayer>>
       /\ (statusMsg' = MsgPdfFailed /\ statusMsg # MsgPdfFailed)
            => (BtnExportPdf(TRUE) \/ PdfResume(TRUE))]_vars

\* A PDF export has failed while a drag with a preview was in progress and
\* a circle was committed: all of them are still there.
C7_Witness ==
    /\ statusMsg = MsgPdfFailed
    /\ state.dragging
    /\ previewLayer # <<>>
    /\ drawingLayer # <<>>

C9_ExportsLeaveDrawingAlone ==
    [][/\ <<state, drawingLayer, previewLayer>>'
              # <<state, drawingLayer, previewLayer>> => ~ExportStep
       /\ <<drawingLayer, previewLayer>>' # <<drawingLayer, previewLayer>>
            => \/ \E evt \in MoveEvents : MouseMove(evt)
               \/ \E evt \in MouseEvents : MouseUp(evt)
               \/ MouseLeave
               \/ BtnClear]_vars

\* The SVG export has run while a preview was shown over a committed
\* circle: both are still there and the drag goes on.
C9_Witness ==
    /\ statusMsg = MsgSvgExported
    /\ state.dragging
    /\ previewLayer # <<>>
    /\ drawingLayer # <<>>

\* C10: every shape of either layer has radius >= 1; a preview asked for
\* with a radius below 1 gets radius 1, one asked for with a radius of 1 or
\* more keeps it.
C10_RadiusAtLeastOne ==
    [][/\ state.dragging => \A evt \in MoveEvents :
            MouseMove(evt)
            => /\ Len(previewLayer') = 1
               /\ previewLayer'[1].r2 =
                    IF CloserThan(DragStart, svgPoint(evt), 1)
                      THEN Sub * Sub
                      ELSE Dist2(DragStart, svgPoint(evt))
       /\ \A i \in 1..Len(previewLayer') : previewLayer'[i].r2 >= Sub * Sub
       /\ \A i \in 1..Len(drawingLayer') : drawingLayer'[i].r2 >= Sub * Sub
      ]_vars

\* A drag from the origin with the pointer half a unit away: the preview
\* has radius 1 (no input point is at distance 1 from the origin).
C10_Witness ==
    /\ state.dragging
    /\ DragStart = [x |-> 0, y |-> 0]
    /\ coordsDisplay = "x: 1  y: 0"
    /\ previewLayer # <<>>
    /\ previewLayer[1].r2 = Sub * Sub

\* C11: for every canvas width w > 0 and height h > 0 the page of a PDF
\* export is 297 mm wide and n mm high, n being h / w * 297 rounded to the
\* nearest integer (halves upward); the drawing is placed at the origin and
\* fills the page; the orientation is landscape exactly when 297 > n.
C11_PageKeepsAspectRatio ==
    \A i \in 1..Len(pdf) :
        LET n == pdf[i].format[2]
            w == viewBox.width
            h == viewBox.height
        IN  /\ pdf[i].format[1] = 297
            /\ (2 * n - 1) * w <= 2 * 297 * h
            /\ 2 * 297 * h < (2 * n + 1) * w
            /\ pdf[i].svg = [x |-> 0, y |-> 0, width |-> 297, height |-> n]
            /\ (pdf[i].orientation = "landscape") = (297 > n)
            /\ pdf[i].orientation \in {"landscape", "portrait"}

\* An export is suspended on a canvas taller than wide whose page height
\* was rounded upward: the page is portrait.
C11_Witness ==
    /\ Len(pdf) = 1
    /\ viewBox.height > viewBox.width
    /\ pdf[1].orientation = "portrait"
    /\ pdf[1].format[2] * viewBox.width > 297 * viewBox.height

\* C12: a shape committed by a pointer-up carries the fill colour, stroke
\* colour and stroke width the toolbar holds at that moment; a preview shape
\* put into the preview layer carries the toolbar's stroke colour and width
\* and its fill colour followed by '99'; a change of the toolbar's settings leaves the committed shapes as
\* they are.
C12_ShapesCarryToolbarStyle ==
    [][/\ Len(drawingLayer') > Len(drawingLayer)
            => /\ Last(drawingLayer').fill = state.fillColor
               /\ Last(drawingLayer').stroke = state.strokeColor
               /\ Last(drawingLayer').strokeWidth = state.strokeWidth
       /\ (previewLayer' # previewLayer /\ previewLayer' # <<>>)
            => /\ Len(previewLayer') = 1
               /\ previewLayer'[1].fill = state.fillColor \o "99"
               /\ previewLayer'[1].stroke = state.strokeColor
               /\ previewLayer'[1].strokeWidth = state.strokeWidth
       /\ ( \/ state'.fillColor # state.fillColor
            \/ state'.strokeColor # state.strokeColor
            \/ state'.strokeWidth # state.strokeWidth )
            => drawingLayer' = drawingLayer]_vars

\* A circle was committed with the second fill, stroke and width; the
\* toolbar has been set back to the first ones since, and a preview shows
\* the toolbar's fill with the alpha suffix.
C12_Witness ==
    /\ Len(drawingLayer) = 1
    /\ drawingLayer[1].fill = "#2980b9"
    /\ drawingLayer[1].stroke = "#ffffff"
    /\ drawingLayer[1].strokeWidth = 5
    /\ state.fillColor = "#c0392b"
    /\ state.strokeColor = "#1a1a1a"
    /\ state.strokeWidth = 3
    /\ previewLayer # <<>>
    /\ previewLayer[1].fill = "#c0392b99"

\* C13: in every reachable state the preview layer holds at most one shape,
\* and it is empty whenever no drag is in progress.
C13_PreviewAtMostOne ==
    /\ Len(previewLayer) <= 1
    /\ ~state.dragging => previewLayer = <<>>

\* A second drag is being previewed: the circle of an earlier drag is
\* committed, its preview is gone, and the preview layer holds the one circle
\* of the drag under way, centred elsewhere.
C13_Witness ==
    /\ state.dragging
    /\ Len(previewLayer) = 1
    /\ Len(drawingLayer) = 1
    /\ previewLayer[1].cx # drawingLayer[1].cx

\* C14: a pointer-leave during a drag cancels it without committing: the
\* dragging flag becomes false, the preview layer is emptied and the
\* committed layer is unchanged; once no drag is in progress only a primary
\* pointer-down starts one, and until then a pointer-up commits nothing.
C14_LeaveCancelsDrag ==
    [][/\ (state.dragging /\ MouseLeave)
            => /\ ~state'.dragging
               /\ previewLayer' = <<>>
               /\ drawingLayer' = drawingLayer
       /\ (~state.dragging /\ state'.dragging)
            => \E evt \in MouseEvents : evt.button = 0 /\ MouseDown(evt)
       /\ ~state.dragging
            => \A evt \in MouseEvents :
                 MouseUp(evt) => drawingLayer' = drawingLayer]_vars

\* A drag that began away from the origin is over with nothing committed,
\* no status written and the coordinates display blanked, as a pointer-leave
\* leaves it.
C14_Witness ==
    /\ ~state.dragging
    /\ coordsDisplay = ""
    /\ DragStart # [x |-> 0, y |-> 0]
    /\ drawingLayer = <<>>
    /\ previewLayer = <<>>
    /\ statusMsg = ""

\* C15: a pointer-down with a button other than the primary one leaves the
\* dragging flag, the start point and both layers unchanged (a step that
\* changes one of them is no such pointer-down); a primary pointer-down, in
\* any state, sets dragging to true and records the pointer's document
\* coordinates as the start point, replacing any earlier one, and leaves both
\* layers unchanged; nothing but a primary pointer-down sets the dragging
\* flag or moves the start point.
C15_OnlyPrimaryButtonStartsDrag ==
    /\ [][/\ (\/ state'.dragging # state.dragging
              \/ DragStart' # DragStart
              \/ drawingLayer' # drawingLayer
              \/ previewLayer' # previewLayer)
               => \A evt \in MouseEvents : evt.button # 0 => ~MouseDown(evt)
          /\ ((state'.dragging /\ ~state.dragging) \/ DragStart' # DragStart)
               => \E evt \in MouseEvents : evt.button = 0 /\ MouseDown(evt)]_vars
    /\ [](\A evt \in MouseEvents :
            evt.button = 0
            => /\ ENABLED MouseDown(evt)
               /\ ~ENABLED (MouseDown(evt)
                              /\ ~(/\ state'.dragging
                                   /\ DragStart' = svgPoint(evt)
                                   /\ drawingLayer' = drawingLayer
                                   /\ previewLayer' = previewLayer)))

\* A primary pointer-down during a drag: the preview still shows the circle
\* around the earlier start point, and the start point is now another one.
C15_Witness ==
    /\ state.dragging
    /\ previewLayer # <<>>
    /\ [x |-> previewLayer[1].cx, y |-> previewLayer[1].cy] # DragStart

\* C16: the clear operation leaves the dragging flag, the start point and
\* the style settings unchanged; so when the canvas has just been cleared and
\* a drag is in progress, a pointer-move puts a preview shape into the preview
\* layer, and a pointer-up at distance >= 2 from the start point commits one
\* shape, centred on that start point, into the cleared layer.
C16_ClearKeepsDrag ==
    [][/\ BtnClear => state' = state
       /\ (statusMsg = MsgCleared /\ state.dragging /\ drawingLayer = <<>>)
            => /\ \A evt \in MoveEvents :
                    MouseMove(evt) => Len(previewLayer') = 1
               /\ \A evt \in MouseEvents :
                    (MouseUp(evt) /\ ~CloserThan(DragStart, svgPoint(evt), 2))
                    => /\ Len(drawingLayer') = 1
                       /\ drawingLayer'[1].cx = state.startX
                       /\ drawingLayer'[1].cy = state.startY]_vars

\* The canvas was cleared, 'Canvas cleared.' is still the status, and a drag
\* that began away from the origin is in progress with its preview shown.
C16_Witness ==
    /\ statusMsg = MsgCleared
    /\ state.dragging
    /\ DragStart # [x |-> 0, y |-> 0]
    /\ drawingLayer = <<>>
    /\ Len(previewLayer) = 1

\* C17: a PDF export that gets as far as its render call leaves the status
\* 'Generating PDF...'; the continuation sets the status to exactly one of
\* 'PDF exported.' and 'PDF export failed -- see console for details.'; and
\* when every render call settles, whenever an export is suspended, whatever
\* a later event has written to the status line meanwhile, the status
\* eventually is one of these two messages.
C17_ExportStatusSettles ==
    /\ [][BtnExportPdf(FALSE) => statusMsg' = MsgGeneratingPdf]_vars
    /\ [][\A threw \in BOOLEAN :
            PdfResume(threw)
            => /\ statusMsg' \in {MsgPdfExported, MsgPdfFailed}
               /\ (statusMsg' = MsgPdfFailed) = threw]_vars
    /\ (pdfPending > 0) ~> (statusMsg \in {MsgPdfExported, MsgPdfFailed})

\* An export is suspended and the canvas was cleared meanwhile: 'Canvas
\* cleared.' is the status the continuation is going to overwrite.
C17_Witness ==
    /\ pdfPending > 0
    /\ statusMsg = MsgCleared

\* C18: during a drag a pointer-up, whichever button is released, ends the
\* drag: it can always take place, it sets the dragging flag to false, and it
\* empties the preview layer whether the drag distance is below 2 units
\* (nothing is committed) or not (one shape is committed).
C18_PointerUpEndsDrag ==
    /\ [][(state.dragging /\ ~state'.dragging)
            => \A evt \in MouseEvents :
                 MouseUp(evt)
                 => /\ previewLayer' = <<>>
                    /\ IF CloserThan(DragStart, svgPoint(evt), 2)
                         THEN drawingLayer' = drawingLayer
                         ELSE ExtendsByOne(drawingLayer, drawingLayer')]_vars
    /\ [](state.dragging => \A evt \in MouseEvents :
            (CloserThan(DragStart, svgPoint(evt), 2)
               \/ Len(drawingLayer) < MaxShapes)
            => /\ ENABLED MouseUp(evt)
               /\ ~ENABLED (MouseUp(evt) /\ state'.dragging))

\* After one circle was committed a second drag began elsewhere and has
\* ended with nothing more committed: the first circle's message is still
\* the status, the pointer is over the canvas, the preview is gone.
C18_Witness ==
    /\ ~state.dragging
    /\ previewLayer = <<>>
    /\ Len(drawingLayer) = 1
    /\ DragStart # [x |-> drawingLayer[1].cx, y |-> drawingLayer[1].cy]
    /\ coordsDisplay # ""
    /\ statusMsg = MsgCircleAdded(drawingLayer[1].cx, drawingLayer[1].cy,
                                  drawingLayer[1].r2)

====
